---- MODULE Spec2Model ----
(***************************************************************************)
(* StoryBrush: the turn-taking controller of the App component             *)
(* (src/vite.config.ts).  The state is the three React state cells of App  *)
(* (messages, appState, lastChapterText), the module-level chatSession,    *)
(* and the invocations of the async handler handleUserSend that are        *)
(* suspended at an await.                                                  *)
(*                                                                         *)
(* Strings are sequences of one-character strings or of whole fragments,   *)
(* so that trim and the template literals are computed, not assumed.       *)
(* Message.id (random) and Message.timestamp (clock) are not read by the   *)
(* controller and are left out of the records.                             *)
(***************************************************************************)
EXTENDS Naturals, Sequences, FiniteSets

VARIABLES messages, appState, lastChapterText, chatSession, sessions,
          mounted, running, invocations

vars == <<messages, appState, lastChapterText, chatSession, sessions,
          mounted, running, invocations>>

-----------------------------------------------------------------------------
(* Bounds of the model *)

MaxSubmits == 3
MaxSessions == 2

-----------------------------------------------------------------------------
(* Types and configuration *)

User == "user"
Assistant == "assistant"

Text == "text"
Image == "image"

Setup == "SETUP"
Writing == "WRITING"
WaitingForArt == "WAITING_FOR_ART"
Painting == "PAINTING"

AppState == {Setup, Writing, WaitingForArt, Painting}

Message(sender, type, content) ==
  [sender |-> sender, type |-> type, content |-> content]

INITIAL_MESSAGE ==
  Message(Assistant, Text, <<"Hello! I am **StoryBrush**, your creative partner.">>)

WriterFallback == <<"I'm having trouble writing right now. Let's try again.">>
SetupApology == <<"I encountered an issue starting the story. Please try again.">>
ArtApology ==
  <<"I was unable to generate that illustration. Could you provide a different description?">>

\* chatSession: Chat | null; the Chat objects are numbered in creation order
NoSession == 0

-----------------------------------------------------------------------------
(* Strings typed into the input box, and String.prototype.trim *)

Space == " "

\* what the user may have typed when the form is submitted
Inputs ==
  {<<>>, <<Space>>, <<Space, Space>>,
   <<"a">>, <<Space, "a">>, <<"a", Space>>,
   <<"a", Space, "b">>, <<Space, "a", Space, "b", Space>>}

RECURSIVE trimStart(_)
trimStart(s) ==
  IF s = <<>> THEN <<>>
  ELSE IF Head(s) = Space THEN trimStart(Tail(s)) ELSE s

RECURSIVE trimEnd(_)
trimEnd(s) ==
  IF s = <<>> THEN <<>>
  ELSE IF s[Len(s)] = Space THEN trimEnd(SubSeq(s, 1, Len(s) - 1)) ELSE s

trim(s) == trimEnd(trimStart(s))

\* the texts InputArea can hand to onSend
Texts == {trim(i) : i \in Inputs} \ {<<>>}

-----------------------------------------------------------------------------
(* Responses of the two external generation calls *)

PendingStatus == "pending"
Fulfilled == "fulfilled"
Rejected == "rejected"

Response(status, text, parts) ==
  [status |-> status, text |-> text, parts |-> parts]

NoResponse == Response(PendingStatus, <<>>, <<>>)
RejectedResponse == Response(Rejected, <<>>, <<>>)

\* chatSession.sendMessage: rejects, or fulfils with a response whose .text
\* may be empty
WriterResponses ==
  {RejectedResponse} \cup
  {Response(Fulfilled, t, <<>>) : t \in {<<>>, <<"c1">>}}

TextPart == [inline |-> FALSE, mimeType |-> "", data |-> ""]
InlinePart(d) == [inline |-> TRUE, mimeType |-> "image/png", data |-> d]

\* ai.models.generateContent: rejects, or fulfils with the parts of the
\* first candidate (none when candidates or content is missing)
IllustratorResponses ==
  {RejectedResponse} \cup
  {Response(Fulfilled, <<>>, p) :
     p \in {<<>>, <<TextPart>>, <<InlinePart("d1")>>,
            <<TextPart, InlinePart("d1")>>, <<InlinePart("d1"), InlinePart("d2")>>}}

Outcome(ok, value) == [ok |-> ok, value |-> value]

-----------------------------------------------------------------------------
(* Gemini service: the Writer and the Illustrator *)

WriterClient == "Writer"
IllustratorClient == "Illustrator"

Call(client, handle, message) ==
  [client |-> client, handle |-> handle, message |-> message]

\* startStorySession: ai.chats.create returns a new Chat each time
startStorySession ==
  /\ chatSession' = sessions + 1
  /\ sessions' = sessions + 1

\* sendMessageToWriter up to its await: throws before sending when there is
\* no session, otherwise sends the message on the current chatSession
sendMessageToWriter(message) ==
  IF chatSession = NoSession
    THEN [call |-> Call(WriterClient, NoSession, message), response |-> RejectedResponse]
    ELSE [call |-> Call(WriterClient, chatSession, message), response |-> NoResponse]

\* sendMessageToWriter that throws on an empty text
WriterResult_ThrowsOnEmpty(response) ==
  IF response.status = Rejected THEN Outcome(FALSE, <<>>)
  ELSE IF response.text # <<>> THEN Outcome(TRUE, response.text)
  ELSE Outcome(FALSE, <<>>)

\* sendMessageToWriter after its await: rethrows, or response.text || fallback
WriterResult(response) ==
  IF response.status = Rejected THEN Outcome(FALSE, <<>>)
  ELSE Outcome(TRUE, IF response.text # <<>> THEN response.text ELSE WriterFallback)

IllustrationPrompt(userDescription, storyContext) ==
  <<"Scene Description: ">> \o userDescription \o <<"Story Context: ">> \o storyContext

\* generateIllustration up to its await
generateIllustration(userDescription, storyContext) ==
  [call |-> Call(IllustratorClient, NoSession,
                 IllustrationPrompt(userDescription, storyContext)),
   response |-> NoResponse]

DataUrl(part) == <<"data:", part.mimeType, ";base64,", part.data>>
\* generateIllustration without the throw after the loop: resolves undefined
IllustrationResult_NoThrow(response) ==
  IF response.status = Rejected THEN Outcome(FALSE, <<>>)
  ELSE LET inl == {i \in 1..Len(response.parts) : response.parts[i].inline}
       IN IF inl = {} THEN Outcome(TRUE, <<>>)
          ELSE LET first == CHOOSE i \in inl : \A j \in inl : i <= j
               IN Outcome(TRUE, DataUrl(response.parts[first]))

\* generateIllustration after its await: rethrows, returns the data URL of
\* the first part with inlineData, or throws "No image generated."
IllustrationResult(response) ==
  IF response.status = Rejected THEN Outcome(FALSE, <<>>)
  ELSE LET inl == {i \in 1..Len(response.parts) : response.parts[i].inline}
       IN IF inl = {} THEN Outcome(FALSE, <<>>)
          ELSE LET first == CHOOSE i \in inl : \A j \in inl : i <= j
               IN Outcome(TRUE, DataUrl(response.parts[first]))

-----------------------------------------------------------------------------
(* App: invocations of handleUserSend suspended at an await *)

\* the number of handleNewStory calls so far: every session but the one of
\* the mount effect was started by a reset
StoryNo == IF mounted THEN sessions - 1 ELSE sessions

\* An invocation: the branch and text of its closure, the call it awaits and
\* that call's response.  story and session record when it was accepted (the
\* story and the chatSession current then); the code keeps neither.
Handler(id, branch, text, sent) ==
  [id |-> id, branch |-> branch, text |-> text,
   story |-> StoryNo, session |-> chatSession,
   call |-> sent.call, response |-> sent.response]

\* the same invocation suspended at its next await
Chained(h, sent) == [h EXCEPT !.call = sent.call, !.response = sent.response]

\* invocations whose awaited promise has settled and whose continuation is
\* queued as a microtask
Settled == {h \in running : h.response.status # PendingStatus}

\* generation calls that were issued and have not settled
InFlight == {h \in running : h.response.status = PendingStatus}

StartPrompt(text) == <<"The story is about: ">> \o text \o <<". Let's begin!">>

NextChapterPrompt(text) ==
  <<"The Art Director has provided the illustration for the previous chapter. It depicts: ">>
    \o text \o <<". Please write the next chapter now.">>
\* addMessage that puts the new record first
addMessage_Prepend(prev, sender, type, content) ==
  <<Message(sender, type, content)>> \o prev

addMessage(prev, sender, type, content) ==
  Append(prev, Message(sender, type, content))

Current ==
  [messages |-> messages, appState |-> appState,
   lastChapterText |-> lastChapterText, running |-> running,
   invocations |-> invocations]
\* handleUserSend with a plain else in place of else if (WaitingForArt)
AfterSend_PlainElse(text) ==
  IF appState = Setup THEN
    [Current EXCEPT
       !.messages = addMessage(messages, User, Text, text),
       !.appState = Writing,
       !.running = running \cup
          {Handler(invocations + 1, Setup, text, sendMessageToWriter(StartPrompt(text)))},
       !.invocations = invocations + 1]
  ELSE
    [Current EXCEPT
       !.messages = addMessage(messages, User, Text, text),
       !.appState = Painting,
       !.running = running \cup
          {Handler(invocations + 1, WaitingForArt, text,
                   generateIllustration(text, lastChapterText))},
       !.invocations = invocations + 1]

\* handleUserSend(text) up to its first await, as the state it leaves
AfterSend(text) ==
  IF appState = Setup THEN
    [Current EXCEPT
       !.messages = addMessage(messages, User, Text, text),
       !.appState = Writing,
       !.running = running \cup
          {Handler(invocations + 1, Setup, text, sendMessageToWriter(StartPrompt(text)))},
       !.invocations = invocations + 1]
  ELSE IF appState = WaitingForArt THEN
    [Current EXCEPT
       !.messages = addMessage(messages, User, Text, text),
       !.appState = Painting,
       !.running = running \cup
          {Handler(invocations + 1, WaitingForArt, text,
                   generateIllustration(text, lastChapterText))},
       !.invocations = invocations + 1]
  ELSE Current

handleUserSend(text) ==
  LET s == AfterSend(text)
  IN /\ messages' = s.messages
     /\ appState' = s.appState
     /\ lastChapterText' = s.lastChapterText
     /\ running' = s.running
     /\ invocations' = s.invocations
     /\ UNCHANGED <<chatSession, sessions, mounted>>

\* InputArea: disabled while the App is writing or painting
disabled == appState = Writing \/ appState = Painting

\* InputArea.handleSubmit
handleSubmit(input) ==
  /\ trim(input) # <<>>
  /\ ~disabled
  /\ handleUserSend(trim(input))
\* Setup branch that forgets setLastChapterText
resumeSetup_NoLastChapter(h) ==
  LET r == WriterResult(h.response)
  IN IF r.ok
       THEN /\ messages' = addMessage(messages, Assistant, Text, r.value)
            /\ appState' = WaitingForArt
            /\ running' = running \ {h}
            /\ UNCHANGED lastChapterText
       ELSE /\ messages' = addMessage(messages, Assistant, Text, SetupApology)
            /\ appState' = Setup
            /\ running' = running \ {h}
            /\ UNCHANGED lastChapterText

\* Setup branch whose catch advances the phase
resumeSetup_AdvanceOnFailure(h) ==
  LET r == WriterResult(h.response)
  IN IF r.ok
       THEN /\ messages' = addMessage(messages, Assistant, Text, r.value)
            /\ lastChapterText' = r.value
            /\ appState' = WaitingForArt
            /\ running' = running \ {h}
       ELSE /\ messages' = addMessage(messages, Assistant, Text, SetupApology)
            /\ appState' = WaitingForArt
            /\ running' = running \ {h}
            /\ UNCHANGED lastChapterText

\* handleUserSend, Setup branch, after await sendMessageToWriter
resumeSetup(h) ==
  LET r == WriterResult(h.response)
  IN IF r.ok
       THEN /\ messages' = addMessage(messages, Assistant, Text, r.value)
            /\ lastChapterText' = r.value
            /\ appState' = WaitingForArt
            /\ running' = running \ {h}
       ELSE /\ messages' = addMessage(messages, Assistant, Text, SetupApology)
            /\ appState' = Setup
            /\ running' = running \ {h}
            /\ UNCHANGED lastChapterText

\* WaitingForArt branch that asks for the next chapter even without an image
resumeIllustration_ChainsOnFailure(h) ==
  LET r == IllustrationResult(h.response)
  IN IF r.ok
       THEN /\ messages' = addMessage(messages, Assistant, Image, r.value)
            /\ appState' = Writing
            /\ running' = (running \ {h}) \cup
                 {Chained(h, sendMessageToWriter(NextChapterPrompt(h.text)))}
            /\ UNCHANGED lastChapterText
       ELSE /\ messages' = addMessage(messages, Assistant, Text, ArtApology)
            /\ appState' = Writing
            /\ running' = (running \ {h}) \cup
                 {Chained(h, sendMessageToWriter(NextChapterPrompt(h.text)))}
            /\ UNCHANGED lastChapterText

\* WaitingForArt branch whose catch also clears lastChapterText
resumeIllustration_ClearsChapter(h) ==
  LET r == IllustrationResult(h.response)
  IN IF r.ok
       THEN /\ messages' = addMessage(messages, Assistant, Image, r.value)
            /\ appState' = Writing
            /\ running' = (running \ {h}) \cup
                 {Chained(h, sendMessageToWriter(NextChapterPrompt(h.text)))}
            /\ UNCHANGED lastChapterText
       ELSE /\ messages' = addMessage(messages, Assistant, Text, ArtApology)
            /\ appState' = WaitingForArt
            /\ lastChapterText' = <<>>
            /\ running' = running \ {h}

\* handleUserSend, WaitingForArt branch, after await generateIllustration:
\* appends the image and issues the next-chapter call in the same turn
resumeIllustration(h) ==
  LET r == IllustrationResult(h.response)
  IN IF r.ok
       THEN /\ messages' = addMessage(messages, Assistant, Image, r.value)
            /\ appState' = Writing
            /\ running' = (running \ {h}) \cup
                 {Chained(h, sendMessageToWriter(NextChapterPrompt(h.text)))}
            /\ UNCHANGED lastChapterText
       ELSE /\ messages' = addMessage(messages, Assistant, Text, ArtApology)
            /\ appState' = WaitingForArt
            /\ running' = running \ {h}
            /\ UNCHANGED lastChapterText
\* WaitingForArt branch that returns to Setup after the next chapter
resumeNextChapter_BackToSetup(h) ==
  LET r == WriterResult(h.response)
  IN IF r.ok
       THEN /\ messages' = addMessage(messages, Assistant, Text, r.value)
            /\ lastChapterText' = r.value
            /\ appState' = Setup
            /\ running' = running \ {h}
       ELSE /\ messages' = addMessage(messages, Assistant, Text, ArtApology)
            /\ appState' = WaitingForArt
            /\ running' = running \ {h}
            /\ UNCHANGED lastChapterText

\* WaitingForArt branch whose catch does not reset the phase
resumeNextChapter_StuckWriting(h) ==
  LET r == WriterResult(h.response)
  IN IF r.ok
       THEN /\ messages' = addMessage(messages, Assistant, Text, r.value)
            /\ lastChapterText' = r.value
            /\ appState' = WaitingForArt
            /\ running' = running \ {h}
       ELSE /\ messages' = addMessage(messages, Assistant, Text, ArtApology)
            /\ running' = running \ {h}
            /\ UNCHANGED <<appState, lastChapterText>>

\* handleUserSend, WaitingForArt branch, after await sendMessageToWriter
resumeNextChapter(h) ==
  LET r == WriterResult(h.response)
  IN IF r.ok
       THEN /\ messages' = addMessage(messages, Assistant, Text, r.value)
            /\ lastChapterText' = r.value
            /\ appState' = WaitingForArt
            /\ running' = running \ {h}
       ELSE /\ messages' = addMessage(messages, Assistant, Text, ArtApology)
            /\ appState' = WaitingForArt
            /\ running' = running \ {h}
            /\ UNCHANGED lastChapterText

\* the continuation of a suspended handleUserSend, run when its promise settled
resume(h) ==
  /\ h \in Settled
  /\ IF h.branch = Setup THEN resumeSetup(h)
     ELSE IF h.call.client = IllustratorClient THEN resumeIllustration(h)
     ELSE resumeNextChapter(h)
  /\ UNCHANGED <<chatSession, sessions, mounted, invocations>>

\* the provider settles an in-flight call
settle(h, response) ==
  /\ h \in InFlight
  /\ response \in (IF h.call.client = WriterClient
                     THEN WriterResponses ELSE IllustratorResponses)
  /\ running' = (running \ {h}) \cup {[h EXCEPT !.response = response]}
  /\ UNCHANGED <<messages, appState, lastChapterText, chatSession, sessions,
                 mounted, invocations>>
\* handleNewStory that forgets setLastChapterText("")
handleNewStory_KeepsChapter ==
  /\ messages' = <<INITIAL_MESSAGE>>
  /\ appState' = Setup
  /\ startStorySession
  /\ UNCHANGED <<lastChapterText, mounted, running, invocations>>

handleNewStory ==
  /\ messages' = <<INITIAL_MESSAGE>>
  /\ appState' = Setup
  /\ lastChapterText' = <<>>
  /\ startStorySession
  /\ UNCHANGED <<mounted, running, invocations>>

\* useEffect(() => { startStorySession(); }, [])
mountEffect ==
  /\ ~mounted
  /\ mounted' = TRUE
  /\ startStorySession
  /\ UNCHANGED <<messages, appState, lastChapterText, running, invocations>>

-----------------------------------------------------------------------------
(* The system *)

Init ==
  /\ messages = <<INITIAL_MESSAGE>>
  /\ appState = Setup
  /\ lastChapterText = <<>>
  /\ chatSession = NoSession
  /\ sessions = 0
  /\ mounted = FALSE
  /\ running = {}
  /\ invocations = 0

\* Continuations are microtasks: they run before the next event is handled.
Submit == \E input \in Inputs : invocations < MaxSubmits /\ Settled = {} /\ handleSubmit(input)

Send == \E text \in Texts : invocations < MaxSubmits /\ Settled = {} /\ handleUserSend(text)

NewStory == sessions < MaxSessions /\ Settled = {} /\ handleNewStory

Mount == sessions < MaxSessions /\ Settled = {} /\ mountEffect

Settle ==
  \E h \in running : \E response \in WriterResponses \cup IllustratorResponses :
     Settled = {} /\ settle(h, response)

Resume == \E h \in running : resume(h)

Next == Submit \/ Send \/ NewStory \/ Mount \/ Settle \/ Resume

Spec == Init /\ [][Next]_vars

\* Every external call eventually settles, and a queued continuation runs.
LiveSpec == Spec /\ WF_vars(Settle) /\ WF_vars(Resume)

-----------------------------------------------------------------------------
(* Steps of a behaviour, recognised from the state they start and end in *)

Busy == {Writing, Painting}

\* a handleUserSend that took one of its two branches
Accepted == invocations' = invocations + 1

\* the invocation started by an Accepted step
Started == {h \in running' : h.id = invocations'}

\* a handleNewStory step (the mount effect also starts a session)
Reset == sessions' = sessions + 1 /\ mounted' = mounted

Appended(m) == messages' = Append(messages, m)

Finished(h) == \A g \in running' : g.id # h.id

HasImage(response) ==
  /\ response.status = Fulfilled
  /\ \E i \in 1..Len(response.parts) : response.parts[i].inline

IsPrefix(s, t) == Len(s) <= Len(t) /\ SubSeq(t, 1, Len(s)) = s

Last(s) == s[Len(s)]

-----------------------------------------------------------------------------
(* Properties *)

\* C1: a submit received while appState is Writing or Painting is a no-op:
\* it leaves messages, appState and lastChapterText as they are and starts
\* no invocation, hence no Writer or Illustrator call.
C1_BusySubmitNoOp ==
  \A text \in Inputs \cup Texts : appState \in Busy => AfterSend(text) = Current

\* Scenario C: a Writer call is in flight and the phase is Writing.
C1_Witness ==
  /\ appState = Writing
  /\ \E h \in InFlight : h.call.client = WriterClient

\* C2: a submit accepted in Setup appends the User/Text record; when its
\* Writer call is fulfilled the invocation appends one Assistant/Text record,
\* sets lastChapterText to that record's payload, sets the phase to
\* WaitingForArt and ends.
C2_SetupSuccess ==
  [][ /\ (appState = Setup /\ Accepted) =>
           \E h \in Started :
              /\ h.branch = Setup
              /\ Appended(Message(User, Text, h.text))
              /\ appState' = Writing
      /\ \A h \in Settled :
           (h.branch = Setup /\ h.response.status = Fulfilled) =>
              /\ \E m \in {Last(messages')} :
                    /\ Appended(m)
                    /\ m.sender = Assistant /\ m.type = Text
                    /\ lastChapterText' = m.content
                    /\ m.content # <<>>
              /\ appState' = WaitingForArt
              /\ Finished(h) ]_vars

\* Scenario A: greeting, topic, first chapter.
C2_Witness ==
  /\ messages = <<INITIAL_MESSAGE, Message(User, Text, <<"a">>),
                  Message(Assistant, Text, <<"c1">>)>>
  /\ lastChapterText = <<"c1">>
  /\ appState = WaitingForArt
  /\ running = {}

\* C3: a submit accepted in WaitingForArt appends the User/Text record; when
\* its Illustrator call yields an image the invocation appends one
\* Assistant/Image record and goes on to the Writer; when that Writer call is
\* fulfilled it appends one Assistant/Text record, sets lastChapterText to its
\* payload, returns the phase to WaitingForArt and ends.
C3_ArtCycleSuccess ==
  [][ /\ (appState = WaitingForArt /\ Accepted) =>
           \E h \in Started :
              /\ h.branch = WaitingForArt
              /\ h.call.client = IllustratorClient
              /\ Appended(Message(User, Text, h.text))
              /\ appState' = Painting
      /\ \A h \in Settled :
           (h.branch = WaitingForArt /\ h.call.client = IllustratorClient
              /\ HasImage(h.response)) =>
              /\ \E m \in {Last(messages')} :
                    Appended(m) /\ m.sender = Assistant /\ m.type = Image
              /\ appState' = Writing
              /\ \E g \in running' : g.id = h.id /\ g.call.client = WriterClient
              /\ lastChapterText' = lastChapterText
      /\ \A h \in Settled :
           (h.branch = WaitingForArt /\ h.call.client = WriterClient
              /\ h.response.status = Fulfilled) =>
              /\ \E m \in {Last(messages')} :
                    /\ Appended(m)
                    /\ m.sender = Assistant /\ m.type = Text
                    /\ lastChapterText' = m.content
              /\ appState' = WaitingForArt
              /\ Finished(h) ]_vars

\* One full cycle after the first chapter: description, image, next chapter.
C3_Witness ==
  /\ Len(messages) = 6
  /\ messages[4] = Message(User, Text, <<"a">>)
  /\ messages[5].sender = Assistant /\ messages[5].type = Image
  /\ messages[6] = Message(Assistant, Text, WriterFallback)
  /\ lastChapterText = WriterFallback
  /\ appState = WaitingForArt
  /\ running = {}

\* C4: when the chained Writer call of a WaitingForArt submit fails, the
\* invocation keeps every record of the log, the image included, appends one
\* Assistant/Text failure notice, sets the phase to WaitingForArt and ends.
C4_PartialFailure ==
  [][ \A h \in Settled :
        (h.branch = WaitingForArt /\ h.call.client = WriterClient
           /\ h.response.status = Rejected) =>
           /\ Appended(Message(Assistant, Text, ArtApology))
           /\ appState' = WaitingForArt
           /\ lastChapterText' = lastChapterText
           /\ Finished(h) ]_vars

\* The image is followed by the failure notice and the phase is WaitingForArt.
C4_Witness ==
  /\ Len(messages) = 6
  /\ messages[5].sender = Assistant /\ messages[5].type = Image
  /\ messages[6] = Message(Assistant, Text, ArtApology)
  /\ appState = WaitingForArt
  /\ running = {}

\* C5: when the Illustrator call of a WaitingForArt submit is rejected or
\* fulfilled without an image part, the invocation appends one Assistant/Text
\* apology and no image, issues no Writer call, leaves the phase at
\* WaitingForArt and ends.
C5_IllustratorFailure ==
  [][ \A h \in Settled :
        (h.branch = WaitingForArt /\ h.call.client = IllustratorClient
           /\ ~HasImage(h.response)) =>
           /\ Appended(Message(Assistant, Text, ArtApology))
           /\ appState' = WaitingForArt
           /\ lastChapterText' = lastChapterText
           /\ Finished(h) ]_vars

\* Scenario B: the description is followed by the apology, with no image.
C5_Witness ==
  /\ Len(messages) = 5
  /\ messages[3].sender = Assistant /\ messages[3].type = Text
  /\ messages[4] = Message(User, Text, <<"a">>)
  /\ messages[5] = Message(Assistant, Text, ArtApology)
  /\ appState = WaitingForArt
  /\ running = {}

\* C6: when the Writer call of a Setup submit fails, the invocation appends
\* one Assistant/Text apology, reverts the phase to Setup, leaves
\* lastChapterText alone and ends; a submit made while there is no chat
\* session fails in this way without any call being sent.
C6_SetupFailure ==
  [][ /\ \A h \in Settled :
           (h.branch = Setup /\ h.response.status = Rejected) =>
              /\ Appended(Message(Assistant, Text, SetupApology))
              /\ appState' = Setup
              /\ lastChapterText' = lastChapterText
              /\ Finished(h)
      /\ (appState = Setup /\ Accepted /\ chatSession = NoSession) =>
           \E h \in Started :
              /\ h.response.status = Rejected
              /\ Appended(Message(User, Text, h.text))
              /\ InFlight' = InFlight ]_vars

\* The topic is followed by the apology and the phase is Setup again.
C6_Witness ==
  /\ messages = <<INITIAL_MESSAGE, Message(User, Text, <<"a">>),
                  Message(Assistant, Text, SetupApology)>>
  /\ appState = Setup
  /\ lastChapterText = <<>>
  /\ chatSession # NoSession
  /\ running = {}

\* C7: handleNewStory, whatever the phase, leaves the log holding only the
\* greeting, the phase Setup, lastChapterText empty, and a chat session that
\* was never current before and that no earlier call was sent on.
C7_NewStoryResets ==
  [][ Reset =>
        /\ messages' = <<INITIAL_MESSAGE>>
        /\ appState' = Setup
        /\ lastChapterText' = <<>>
        /\ chatSession' \notin 0..sessions
        /\ \A h \in running : h.call.handle # chatSession' ]_vars

\* A reset made while an illustration was being painted.
C7_Witness ==
  /\ messages = <<INITIAL_MESSAGE>>
  /\ appState = Setup
  /\ lastChapterText = <<>>
  /\ chatSession > 1
  /\ \E h \in InFlight : h.call.client = IllustratorClient

\* C8: whenever a Writer or Illustrator call is in flight the phase is
\* Writing or Painting.
C8_InFlightImpliesBusy ==
  InFlight # {} => appState \in Busy

\* C9: at most one generation call is in flight at any time.
C9_OneCallInFlight ==
  Cardinality(InFlight) <= 1

\* C10: every step other than handleNewStory keeps the log as a prefix of
\* the new log, and a handleNewStory step is the only one after which the
\* log is shorter.
C10_AppendOnly ==
  [][ /\ Reset \/ IsPrefix(messages, messages')
      /\ Len(messages') < Len(messages) => Reset ]_vars

\* A log that grew through a whole story cycle.
C10_Witness ==
  /\ Len(messages) = 6
  /\ messages[1] = INITIAL_MESSAGE
  /\ messages[5].type = Image

\* C11: if every call eventually settles, a phase of Writing or Painting is
\* always followed by a phase that accepts input, whatever the outcomes.
C11_BusyLeadsToAccepting ==
  (appState \in Busy) ~> (appState \in {Setup, WaitingForArt})

\* Two failed starts in a row, and the phase accepts input again.
C11_Witness ==
  /\ Len(messages) = 5
  /\ messages[3] = Message(Assistant, Text, SetupApology)
  /\ messages[5] = Message(Assistant, Text, SetupApology)
  /\ appState = Setup
  /\ running = {}

\* C12: within a submit accepted in WaitingForArt the next-chapter Writer
\* call is issued only in the step in which the Illustrator call of the same
\* invocation has yielded an image and that image is appended; the invocation
\* sets the phase to Painting, then Writing, and to WaitingForArt on the
\* success path only when the Writer call has been fulfilled.
C12_IllustrationBeforeChapter ==
  [][ /\ \A g \in running' :
           (g.branch = WaitingForArt /\ g.call.client = WriterClient
              /\ ~\E k \in running : k.id = g.id /\ k.call.client = WriterClient) =>
              \E h \in Settled :
                 /\ h.id = g.id
                 /\ h.call.client = IllustratorClient
                 /\ HasImage(h.response)
                 /\ Appended(Message(Assistant, Image, IllustrationResult(h.response).value))
                 /\ g.call.message = NextChapterPrompt(h.text)
                 /\ appState' = Writing
      /\ \A g \in running' :
           (g.branch = WaitingForArt /\ g.call.client = IllustratorClient
              /\ ~\E k \in running : k.id = g.id) =>
              appState = WaitingForArt /\ appState' = Painting
      /\ \A h \in Settled :
           (h.branch = WaitingForArt /\ Finished(h) /\ Last(messages').content # ArtApology) =>
              /\ h.call.client = WriterClient
              /\ h.response.status = Fulfilled
              /\ appState' = WaitingForArt ]_vars

\* The image has just been appended and the next chapter is being written.
C12_Witness ==
  /\ appState = Writing
  /\ Last(messages).type = Image
  /\ \E h \in InFlight :
        /\ h.branch = WaitingForArt
        /\ h.call.client = WriterClient
        /\ h.call.message = NextChapterPrompt(h.text)

\* an invocation accepted in a story that handleNewStory has since replaced
Stale(h) == h.story # StoryNo

\* the awaited call of a settled invocation failed
Failed(h) ==
  IF h.call.client = WriterClient THEN h.response.status = Rejected
  ELSE ~HasImage(h.response)

\* C13: every Illustrator call carries the submitted text as scene
\* description and the current lastChapterText as story context, and
\* lastChapterText is only ever overwritten with a chapter written for a
\* submit of the current story.
C13_IllustratorContext ==
  [][ /\ (appState = WaitingForArt /\ Accepted) =>
           \E h \in Started :
              /\ Appended(Message(User, Text, h.text))
              /\ h.call = Call(IllustratorClient, NoSession,
                               IllustrationPrompt(h.text, lastChapterText))
      /\ \A h \in Settled : Stale(h) => lastChapterText' = lastChapterText ]_vars

\* C14: a Writer call fulfilled with an empty text counts as a success: the
\* fallback string is appended as the Assistant/Text chapter, lastChapterText
\* is set to it and the phase becomes WaitingForArt.
C14_EmptyTextFallback ==
  [][ \A h \in Settled :
        (h.call.client = WriterClient /\ h.response.status = Fulfilled
           /\ h.response.text = <<>>) =>
           /\ Appended(Message(Assistant, Text, WriterFallback))
           /\ lastChapterText' = WriterFallback
           /\ appState' = WaitingForArt
           /\ Finished(h) ]_vars

\* The first chapter of a story is the fallback string.
C14_Witness ==
  /\ Len(messages) = 3
  /\ messages[2].sender = User
  /\ messages[3] = Message(Assistant, Text, WriterFallback)
  /\ lastChapterText = WriterFallback
  /\ appState = WaitingForArt
  /\ running = {}

\* C15: the continuation of an invocation accepted before a handleNewStory
\* appends nothing to the log and changes neither the phase nor
\* lastChapterText.
C15_ResetIsolation ==
  [][ \A h \in Settled :
        Stale(h) =>
           /\ messages' = messages
           /\ appState' = appState
           /\ lastChapterText' = lastChapterText ]_vars

\* C16: every Writer call of an invocation is sent on the chat session that
\* was current when the invocation was accepted, and never on the session of
\* a story started after it.
C16_WriterCallOnOwnSession ==
  \A h \in running :
     h.call.client = WriterClient =>
        /\ h.call.handle = h.session
        /\ Stale(h) => h.call.handle # chatSession

\* C17: in Setup lastChapterText is empty; in WaitingForArt and Painting it
\* is not.
C17_PhaseChapterConsistent ==
  /\ appState = Setup => lastChapterText = <<>>
  /\ appState \in {WaitingForArt, Painting} => lastChapterText # <<>>

\* C18: the log starts with the greeting, every Assistant/Image record comes
\* right after a User/Text record, and a User/Text record is the last record
\* only while its submit is still running.
C18_LogWellFormed ==
  /\ messages[1] = INITIAL_MESSAGE
  /\ \A i \in 1..Len(messages) :
        (messages[i].sender = Assistant /\ messages[i].type = Image) =>
           /\ i > 1
           /\ messages[i - 1].sender = User
           /\ messages[i - 1].type = Text
  /\ \A i \in 1..Len(messages) :
        (messages[i].sender = User /\ running = {}) =>
           /\ i < Len(messages)
           /\ messages[i + 1].sender = Assistant

\* C19: the continuation that handles a failed call, in either branch,
\* leaves lastChapterText and chatSession as they are, so the next
\* illustration request carries the same chapter.
C19_FailureKeepsChapter ==
  [][ \A h \in Settled :
        Failed(h) =>
           /\ lastChapterText' = lastChapterText
           /\ chatSession' = chatSession ]_vars

\* After a failed illustration the retry is in flight with the same chapter.
C19_Witness ==
  /\ Len(messages) = 6
  /\ messages[3] = Message(Assistant, Text, <<"c1">>)
  /\ messages[5] = Message(Assistant, Text, ArtApology)
  /\ messages[6].sender = User
  /\ lastChapterText = <<"c1">>
  /\ appState = Painting
  /\ \E h \in InFlight :
        h.call = Call(IllustratorClient, NoSession,
                      IllustrationPrompt(h.text, <<"c1">>))

====
